---- MODULE Spec2Model ----
(***************************************************************************)
(* Model of server.py: the sensor state (alarm state machine, event        *)
(* history, map cache), the serial reader thread (ingestion context), the  *)
(* broadcast queue with its worker, and the websocket endpoints with the   *)
(* commands they accept (dispatch context, one cooperative event loop).    *)
(*                                                                         *)
(* Time is counted in whole seconds.  The ingestion context is a thread:   *)
(* its steps interleave freely with the dispatch context.  The coroutines  *)
(* of the dispatch context interleave with each other only at an await.    *)
(***************************************************************************)
EXTENDS Integers, Sequences, FiniteSets, TLC

\* ---------------------------------------------------------------- constants
AUTO_RESET_TIMEOUT == 4
max_events == 50
RETRY_DELAY == 2
DefaultThreshold == 500

\* ------------------------------------------------------------------- bounds
NumObservers == 2
NumOrderObservers == 1
NumUnits == 3
NumGains == 2
MaxTicks == 5
MaxRouted == 2
MaxCmds == 2
MaxFaults == 1
MaxHistRouted == 52
MaxHistOther == 1
MaxMapRouted == 3
MaxPipeRouted == 1
MaxPipeGone == 1
MaxTimedRouted == 1
MaxTimedCmds == 1
MaxFairRouted == 2
MaxRecFaults == 2
MaxPubCmds == 2
MaxWireFaults == 1

Observers == 1..NumObservers
Units == 1..NumUnits
Gains == 1..NumGains
AlarmStates == {"clear", "alarm", "comm_loss", "disconnected"}
AlarmModes == {"auto", "manual"}
EventTypes == {"detection", "comm_loss", "connected", "map"}
StartTime == AUTO_RESET_TIMEOUT + 1
MaxTime == StartTime + MaxTicks

VARIABLES
    \* SensorState
    serial_connected, alarm_state, alarm_mode, acknowledged,
    last_detection_time, events, map_data, websockets, lock, serial_conn,
    detection_enabled, saved_threshold,
    \* module globals and the clock
    broadcast_queue, now,
    \* serial_reader_thread: position, backoff deadline, status being published
    reader_pc, reader_ret, reader_wake, reader_status,
    \* broadcast_worker: position, message in delivery, list index, failed sends
    worker_pc, worker_msg, worker_idx, worker_disc,
    \* websocket_endpoint, per observer: position, snapshot index, channel health
    ws_pc, ws_idx, chan_ok, loop_blocked,
    \* handle_ws_command, per observer: the texts the running command has yet to send
    cmd_texts,
    \* history variables (observation only)
    received, routed, enqueued, cmds, faults, last_op, rearm, episode, track, pass_start,
    \* history: fields accessed outside state.lock, send_serial calls, device writes
    bare, sent, wire

sensor_vars == <<serial_connected, alarm_state, alarm_mode, acknowledged,
                 last_detection_time, events, map_data, websockets, lock,
                 serial_conn, detection_enabled, saved_threshold>>
reader_vars == <<reader_pc, reader_ret, reader_wake, reader_status>>
worker_vars == <<worker_pc, worker_msg, worker_idx, worker_disc>>
ws_vars == <<ws_pc, ws_idx, chan_ok, loop_blocked, cmd_texts>>
hist_vars == <<received, routed, enqueued, cmds, faults, last_op, rearm, episode, track,
              pass_start, bare, sent, wire>>
vars == <<sensor_vars, broadcast_queue, now, reader_vars, worker_vars, ws_vars, hist_vars>>

\* ------------------------------------------------------------------ helpers
RECURSIVE Reverse(_)
Reverse(s) == IF s = <<>> THEN <<>> ELSE Append(Reverse(Tail(s)), Head(s))

RECURSIVE Filter(_, _)
\* the entries of s whose unit_id differs from u, in order
Filter(s, u) ==
    IF s = <<>> THEN <<>>
    ELSE IF Head(s).unit_id # u THEN <<Head(s)>> \o Filter(Tail(s), u)
         ELSE Filter(Tail(s), u)

RECURSIVE RemoveFirst(_, _)
\* list.remove(x): drops the first occurrence of x
RemoveFirst(s, x) ==
    IF s = <<>> THEN <<>>
    ELSE IF Head(s) = x THEN Tail(s)
         ELSE <<Head(s)>> \o RemoveFirst(Tail(s), x)

InSeq(s, x) == \E i \in 1..Len(s) : s[i] = x

RECURSIVE InsertByUnit(_, _)
\* one step of the stable sort on unit_id: e goes after every entry <= it
InsertByUnit(s, e) ==
    IF s = <<>> THEN <<e>>
    ELSE IF Head(s).unit_id <= e.unit_id THEN <<Head(s)>> \o InsertByUnit(Tail(s), e)
         ELSE <<e>> \o s

RECURSIVE SortByUnit(_)
SortByUnit(s) ==
    IF s = <<>> THEN <<>>
    ELSE InsertByUnit(SortByUnit(SubSeq(s, 1, Len(s) - 1)), s[Len(s)])

\* ------------------------------------------------------- alarm state machine
\* set_alarm: the value _acknowledged has when set_alarm(s) returns
SetAlarmAckBroken(s, cur, mode, ack) ==
    IF s = "alarm" /\ cur = "alarm" /\ ack /\ mode = "manual" THEN FALSE ELSE ack

SetAlarmAckSticky(s, cur, mode, ack) == ack

SetAlarmAck(s, cur, mode, ack) ==
    LET rearmed == IF s = "alarm" /\ cur = "alarm" /\ ack /\ mode = "manual"
                   THEN FALSE ELSE ack
    IN  IF s # cur THEN FALSE ELSE rearmed

\* acknowledge: the raw state it leaves
AckStateBroken(cur, mode) == cur

AckState(cur, mode) == IF mode = "manual" THEN "clear" ELSE cur

\* get_effective_state, as a function of the three fields it reads
EffectiveOfBroken(st, mode, ack) ==
    IF st = "alarm" /\ ack THEN "clear" ELSE st

EffectiveOf(st, mode, ack) ==
    IF st = "alarm" /\ mode = "manual" /\ ack THEN "clear" ELSE st

get_effective_state == EffectiveOf(alarm_state, alarm_mode, acknowledged)

\* check_auto_reset: the timeout test
AutoResetDueBroken(t, last) == t - last >= AUTO_RESET_TIMEOUT

AutoResetDue(t, last) == t - last > AUTO_RESET_TIMEOUT

\* add_event: insert at the front, drop the last entry beyond max_events
add_eventBroken(evs, e) ==
    LET ins == <<e>> \o evs
    IN  IF Len(ins) > max_events THEN Tail(ins) ELSE ins

add_event(evs, e) ==
    LET ins == <<e>> \o evs
    IN  IF Len(ins) > max_events THEN SubSeq(ins, 1, Len(ins) - 1) ELSE ins

\* handle_event, map branch: drop the unit's entry, append, sort by unit_id
MapUpdateBroken(md, e) == SortByUnit(Append(md, e))

MapUpdate(md, e) == SortByUnit(Append(Filter(md, e.unit_id), e))

\* the status record broadcast_status and websocket_endpoint build
StatusRecord ==
    [type |-> "status", serial_connected |-> serial_connected,
     alarm_state |-> get_effective_state, alarm_mode |-> alarm_mode,
     detection_enabled |-> detection_enabled]

\* the fields context ctx has accessed outside `with state.lock`, these included
Bare(ctx, fields) ==
    IF track THEN bare \cup {[ctx |-> ctx, field |-> f] : f \in fields} ELSE bare

\* a queue entry (kind, msg); id numbers the entries in the order put_nowait ran
QueueEntry(kind, msg) ==
    [kind |-> kind, msg |-> msg, id |-> IF track THEN Len(enqueued) + 1 ELSE 0]

\* put_nowait; enqueued records the entries in the order they were put
Enqueue(kind, msg) ==
    /\ broadcast_queue' = Append(broadcast_queue, QueueEntry(kind, msg))
    /\ enqueued' = IF track THEN Append(enqueued, QueueEntry(kind, msg)) ELSE enqueued

NoEvent == [type |-> "none", unit_id |-> 0, gain |-> 0, device_ts |-> 0]
NoStatus == [type |-> "none"]
NoEntry == [kind |-> "none", msg |-> NoStatus, id |-> 0]
NoOp == [name |-> "none", arg |-> "none", prev |-> "disconnected", prev_ack |-> FALSE, mode |-> "auto"]

\* the parsed events the serial line can deliver next; device_ts numbers the lines
NextEvents ==
    {[type |-> t, unit_id |-> 0, gain |-> 0, device_ts |-> Len(routed) + 1] :
        t \in {"detection", "comm_loss", "connected"}}
    \cup {[type |-> "map", unit_id |-> u, gain |-> g, device_ts |-> Len(routed) + 1] :
        u \in Units, g \in Gains}

\* --------------------------------------------------------------------- Init
\* the state once lifespan() has created the queue, the worker task and the
\* reader thread; SensorState.__init__ gives the sensor fields
InitWith(tr) ==
    /\ serial_connected = FALSE
    /\ alarm_state = "disconnected"
    /\ alarm_mode = "auto"
    /\ acknowledged = FALSE
    /\ last_detection_time = 0
    /\ events = <<>>
    /\ map_data = <<>>
    /\ websockets = <<>>
    /\ lock = 0
    /\ serial_conn = FALSE
    /\ detection_enabled = TRUE
    /\ saved_threshold = DefaultThreshold
    /\ broadcast_queue = <<>>
    /\ now = StartTime
    /\ reader_pc = "open"
    /\ reader_ret = "open"
    /\ reader_wake = StartTime
    /\ reader_status = NoStatus
    /\ worker_pc = "get"
    /\ worker_msg = NoEntry
    /\ worker_idx = 1
    /\ worker_disc = <<>>
    /\ ws_pc = [w \in Observers |-> "new"]
    /\ ws_idx = [w \in Observers |-> 0]
    /\ chan_ok = [w \in Observers |-> TRUE]
    /\ loop_blocked = FALSE
    /\ received = [w \in Observers |-> <<>>]
    /\ routed = <<>>
    /\ enqueued = <<>>
    /\ cmds = 0
    /\ faults = 0
    /\ last_op = NoOp
    /\ rearm = 0
    /\ episode = "none"
    /\ track = tr
    /\ pass_start = <<>>
    /\ cmd_texts = [w \in Observers |-> <<>>]
    /\ bare = {}
    /\ sent = <<>>
    /\ wire = <<>>

Init == InitWith(FALSE)

\* ------------------------------------------------- SensorState operations
\* set_alarm(s), called from `by`, with the record of the operation.
\* rearm follows the sequence set_alarm(alarm); acknowledge(); set_alarm(alarm)
\* in manual mode.  episode is "armed" from the moment the raw state is alarm in
\* auto mode, for as long as the mode stays auto, and "relinked" once the link
\* has been opened again since.
SetAlarm(s, by) ==
    /\ alarm_state' = s
    /\ acknowledged' = SetAlarmAck(s, alarm_state, alarm_mode, acknowledged)
    /\ last_op' = [name |-> "set_alarm", arg |-> s, prev |-> alarm_state,
                   prev_ack |-> acknowledged, mode |-> alarm_mode]
    /\ rearm' = IF s = "alarm" /\ alarm_mode = "manual"
                THEN (IF rearm = 2 THEN 3 ELSE 1) ELSE 0
    /\ episode' = IF s = "alarm"
                  THEN (IF alarm_mode = "auto" THEN "armed" ELSE "none")
                  ELSE IF by = "open" /\ episode # "none" THEN "relinked" ELSE episode

\* acknowledge()
Acknowledge ==
    /\ acknowledged' = TRUE
    /\ alarm_state' = AckState(alarm_state, alarm_mode)
    /\ last_op' = [name |-> "acknowledge", arg |-> "none", prev |-> alarm_state,
                   prev_ack |-> acknowledged, mode |-> alarm_mode]
    /\ rearm' = IF alarm_mode = "manual" /\ rearm \in {1, 3} THEN 2 ELSE 0
    /\ UNCHANGED episode

\* ---------------------------------------------------------------- the clock
Tick ==
    /\ now < MaxTime
    /\ now' = now + 1
    /\ UNCHANGED <<sensor_vars, broadcast_queue, reader_vars, worker_vars, ws_vars, hist_vars>>

\* ----------------------------------------------------- serial_reader_thread
\* serial.Serial(...) succeeds: lines 183-191, up to the call of broadcast_status
ReaderOpen ==
    /\ reader_pc = "open"
    /\ now >= reader_wake
    /\ lock = 0
    /\ serial_conn' = TRUE
    /\ serial_connected' = TRUE
    /\ SetAlarm("clear", "open")
    /\ reader_pc' = "status"
    /\ reader_ret' = "bringup"
    /\ UNCHANGED <<alarm_mode, last_detection_time, events, map_data, websockets, lock,
                   detection_enabled, saved_threshold, broadcast_queue, now, reader_wake, reader_status,
                   worker_vars, ws_vars, received, routed, enqueued, cmds, faults, track, pass_start, cmd_texts,
                   bare, sent, wire>>

\* except serial.SerialException: lines 223-227, up to the call of broadcast_status
FaultHandler ==
    /\ lock = 0
    /\ serial_connected' = FALSE
    /\ SetAlarm("disconnected", "fault")
    /\ serial_conn' = FALSE
    /\ reader_pc' = "status"
    /\ reader_ret' = "sleep"
    /\ faults' = faults + 1
    /\ UNCHANGED <<alarm_mode, last_detection_time, events, map_data, websockets, lock,
                   detection_enabled, saved_threshold, broadcast_queue, now, reader_wake, reader_status,
                   worker_vars, ws_vars, received, routed, enqueued, cmds, track, pass_start, cmd_texts,
                   bare, sent, wire>>

\* serial.Serial(...) raises: the device is absent
ReaderOpenFail ==
    /\ reader_pc = "open"
    /\ now >= reader_wake
    /\ FaultHandler

\* the link fails during bring-up or in the read loop
ReaderFault ==
    /\ reader_pc \in {"bringup", "loop"}
    /\ FaultHandler

\* broadcast_status in the reader thread: the record is built ...
ReaderStatusBuild ==
    /\ reader_pc = "status"
    /\ lock = 0
    /\ reader_status' = StatusRecord
    /\ reader_pc' = "put"
    /\ bare' = Bare("ingestion", {"alarm_mode"})
    /\ UNCHANGED <<sensor_vars, broadcast_queue, now, reader_ret, reader_wake,
                   worker_vars, ws_vars,
                   received, routed, enqueued, cmds, faults, last_op, rearm, episode, track,
                   pass_start, sent, wire>>

\* ... and put on the queue; the thread goes on where broadcast_status was called
ReaderStatusPut ==
    /\ reader_pc = "put"
    /\ Enqueue("status", reader_status)
    /\ reader_status' = NoStatus
    /\ reader_pc' = IF reader_ret = "sleep" THEN "open" ELSE reader_ret
    /\ reader_wake' = IF reader_ret = "sleep" THEN now + RETRY_DELAY ELSE reader_wake
    /\ UNCHANGED <<sensor_vars, now, reader_ret, worker_vars, ws_vars,
                   received, routed, cmds, faults, last_op, rearm, episode, track, pass_start, cmd_texts,
                   bare, sent, wire>>

\* send_serial, lines 172-176: what has been written to the device once the call
\* returns; conn says that state.serial_conn is set (the code never closes a handle)
SendSerialBroken(conn, w, call) == Append(w, call)

SendSerial(conn, w, call) == IF conn THEN Append(w, call) ELSE w

\* a text written to the device: a command word and, for threshold and gain, a value
Text(c, v) == [cmd |-> c, value |-> v]

\* the k-th call of send_serial from now, with the text it is given
Call(text, k) == [text |-> text, open |-> serial_conn, call |-> Len(sent) + k]

RECURSIVE Calls(_, _)
\* the calls of send_serial for the texts ts, the first being the k-th from now
Calls(ts, k) == IF ts = <<>> THEN <<>> ELSE <<Call(Head(ts), k)>> \o Calls(Tail(ts), k + 1)

RECURSIVE WriteAll(_, _, _)
WriteAll(conn, w, cs) ==
    IF cs = <<>> THEN w ELSE WriteAll(conn, SendSerial(conn, w, Head(cs)), Tail(cs))

\* send_serial is called for each of the texts ts in turn
Send(ts) ==
    /\ sent' = IF track THEN sent \o Calls(ts, 1) ELSE sent
    /\ wire' = IF track THEN WriteAll(serial_conn, wire, Calls(ts, 1)) ELSE wire

BringUpTexts == <<Text("/", 0), Text("cmd", 0), Text("re 3 4", 0)>>

\* lines 195-202: the bring-up sequence, then the read loop is entered
ReaderBringUp ==
    /\ reader_pc = "bringup"
    /\ reader_pc' = "loop"
    /\ Send(BringUpTexts)
    /\ UNCHANGED <<sensor_vars, broadcast_queue, now, reader_ret, reader_wake,
                   reader_status, worker_vars, ws_vars, received, routed, enqueued, cmds,
                   faults, last_op, rearm, episode, track, pass_start, bare>>

\* handle_event(e) up to broadcast_event: lines 242-264
ReaderRoute(e) ==
    /\ reader_pc = "loop"
    /\ lock = 0
    /\ IF e.type = "detection"
       THEN /\ last_detection_time' = now
            /\ SetAlarm("alarm", "route")
       ELSE IF e.type = "comm_loss"
       THEN /\ SetAlarm("comm_loss", "route")
            /\ UNCHANGED last_detection_time
       ELSE UNCHANGED <<last_detection_time, alarm_state, acknowledged, last_op, rearm,
                       episode>>
    /\ map_data' = IF e.type = "map" THEN MapUpdate(map_data, e) ELSE map_data
    /\ events' = IF e.type # "map" THEN add_event(events, e) ELSE events
    /\ Enqueue("event", e)
    /\ routed' = Append(routed, e)
    /\ bare' = IF e.type = "detection" THEN Bare("ingestion", {"last_detection_time"}) ELSE bare
    /\ reader_pc' = "status"
    /\ reader_ret' = "loop"
    /\ UNCHANGED <<serial_connected, alarm_mode, websockets, lock, serial_conn,
                   detection_enabled, saved_threshold, now, reader_wake, reader_status,
                   worker_vars, ws_vars, received, cmds, faults, track, pass_start, cmd_texts,
                   sent, wire>>

\* check_auto_reset, lines 236-237: the conditions are read
ReaderCheck ==
    /\ reader_pc = "loop"
    /\ reader_pc' = IF alarm_mode = "auto" /\ alarm_state = "alarm"
                       /\ AutoResetDue(now, last_detection_time)
                    THEN "reset" ELSE "loop"
    /\ bare' = Bare("ingestion",
                     {"alarm_mode"}
                     \cup (IF alarm_mode = "auto" THEN {"alarm_state"} ELSE {})
                     \cup (IF alarm_mode = "auto" /\ alarm_state = "alarm"
                           THEN {"last_detection_time"} ELSE {}))
    /\ UNCHANGED <<sensor_vars, broadcast_queue, now, reader_ret, reader_wake,
                   reader_status, worker_vars, ws_vars,
                   received, routed, enqueued, cmds, faults, last_op, rearm, episode, track,
                   pass_start, sent, wire>>

\* check_auto_reset, line 238: set_alarm("clear"), then broadcast_status
ReaderReset ==
    /\ reader_pc = "reset"
    /\ lock = 0
    /\ SetAlarm("clear", "reset")
    /\ reader_pc' = "status"
    /\ reader_ret' = "loop"
    /\ UNCHANGED <<serial_connected, alarm_mode, last_detection_time, events, map_data,
                   websockets, lock, serial_conn, detection_enabled, saved_threshold, broadcast_queue,
                   now, reader_wake, reader_status, worker_vars, ws_vars,
                   received, routed, enqueued, cmds, faults, track, pass_start, cmd_texts,
                   bare, sent, wire>>

\* the steps of the reader thread that take no input
ReaderInternal ==
    \/ ReaderOpen
    \/ ReaderStatusBuild
    \/ ReaderStatusPut
    \/ ReaderBringUp
    \/ ReaderCheck
    \/ ReaderReset

\* ------------------------------------------------------------ dispatch context
\* lock is 0 when state.lock is free and w while the endpoint of observer w
\* holds it across an await.  A coroutine that needs the lock while another,
\* suspended, coroutine of the loop holds it blocks the loop's only thread.
LockFree == lock = 0

\* ws.send_text on observer w: what the observer has been sent
Sent(w, entry) == [received EXCEPT ![w] = IF track THEN Append(@, entry) ELSE @]

\* broadcast_status in the dispatch context (no await between build and put)
DispatchStatus ==
    IF LockFree
    THEN /\ Enqueue("status", StatusRecord')
         /\ UNCHANGED loop_blocked
    ELSE /\ loop_blocked' = TRUE
         /\ UNCHANGED <<broadcast_queue, enqueued>>

\* broadcast_worker, line 294: the next entry is taken from the queue
QueueTakeBroken(q) == [entry |-> q[Len(q)], rest |-> SubSeq(q, 1, Len(q) - 1)]

QueueTake(q) == [entry |-> Head(q), rest |-> Tail(q)]

WorkerGet ==
    /\ ~loop_blocked
    /\ worker_pc = "get"
    /\ broadcast_queue # <<>>
    /\ worker_msg' = QueueTake(broadcast_queue).entry
    /\ broadcast_queue' = QueueTake(broadcast_queue).rest
    /\ worker_idx' = 1
    /\ worker_disc' = <<>>
    /\ worker_pc' = "send"
    /\ pass_start' = IF track THEN websockets ELSE <<>>
    /\ UNCHANGED <<sensor_vars, now, reader_vars, ws_vars, received, routed, enqueued,
                   cmds, faults, last_op, rearm, episode, track, bare, sent, wire>>

\* lines 296-300: one iteration of the loop over state.websockets
WorkerSend ==
    /\ ~loop_blocked
    /\ worker_pc = "send"
    /\ worker_idx <= Len(websockets)
    /\ LET w == websockets[worker_idx]
       IN  IF chan_ok[w]
           THEN /\ received' = Sent(w, worker_msg)
                /\ UNCHANGED worker_disc
           ELSE /\ worker_disc' = Append(worker_disc, w)
                /\ UNCHANGED received
    /\ worker_idx' = worker_idx + 1
    /\ UNCHANGED <<sensor_vars, broadcast_queue, now, reader_vars, worker_pc, worker_msg,
                   ws_vars, routed, enqueued, cmds, faults, last_op, rearm, episode, track, pass_start, cmd_texts,
                   bare, sent, wire>>

RECURSIVE RemoveAll(_, _)
\* lines 301-303: each failed observer is removed if it is still listed
RemoveAll(s, failed) ==
    IF failed = <<>> THEN s
    ELSE RemoveAll(IF InSeq(s, Head(failed)) THEN RemoveFirst(s, Head(failed)) ELSE s,
                   Tail(failed))

\* the loop over state.websockets ends; the failed observers are removed
WorkerEnd ==
    /\ ~loop_blocked
    /\ worker_pc = "send"
    /\ worker_idx > Len(websockets)
    /\ websockets' = RemoveAll(websockets, worker_disc)
    /\ worker_pc' = "get"
    /\ worker_msg' = NoEntry
    /\ worker_idx' = 1
    /\ worker_disc' = <<>>
    /\ pass_start' = <<>>
    /\ UNCHANGED <<serial_connected, alarm_state, alarm_mode, acknowledged,
                   last_detection_time, events, map_data, lock, serial_conn,
                   detection_enabled, saved_threshold, broadcast_queue, now, reader_vars, ws_vars,
                   received, routed, enqueued, cmds, faults, last_op, rearm, episode, track,
                   bare, sent, wire>>

Worker == WorkerGet \/ WorkerSend \/ WorkerEnd

\* websocket_endpoint, lines 328-339: accept, register, send the status
WsConnect(w) ==
    /\ ~loop_blocked
    /\ ws_pc[w] = "new"
    /\ websockets' = Append(websockets, w)
    /\ IF LockFree
       THEN /\ received' = Sent(w, [kind |-> "snapshot", msg |-> StatusRecord, id |-> 0])
            /\ ws_pc' = [ws_pc EXCEPT ![w] = "hist"]
            /\ bare' = Bare("dispatch", {"alarm_mode"})
            /\ UNCHANGED loop_blocked
       ELSE /\ loop_blocked' = TRUE
            /\ UNCHANGED <<received, ws_pc, bare>>
    /\ UNCHANGED <<serial_connected, alarm_state, alarm_mode, acknowledged,
                   last_detection_time, events, map_data, lock, serial_conn,
                   detection_enabled, saved_threshold, broadcast_queue, now, reader_vars, worker_vars,
                   ws_idx, chan_ok, routed, enqueued, cmds, faults, last_op, rearm, episode, track, pass_start, cmd_texts,
                   sent, wire>>

\* lines 342-344: the next history event is sent with state.lock held
WsHistory(w) ==
    /\ ~loop_blocked
    /\ ws_pc[w] = "hist"
    /\ ws_idx[w] < Len(events)
    /\ IF lock \in {0, w}
       THEN IF chan_ok[w]
            THEN /\ received' = Sent(w, [kind |-> "snapshot", msg |-> events[ws_idx[w] + 1],
                                         id |-> 0])
                 /\ ws_idx' = [ws_idx EXCEPT ![w] = @ + 1]
                 /\ lock' = w
                 /\ UNCHANGED <<ws_pc, loop_blocked>>
            ELSE \* send_text raises: the with block releases the lock, the endpoint ends
                 /\ ws_pc' = [ws_pc EXCEPT ![w] = "dead"]
                 /\ lock' = 0
                 /\ UNCHANGED <<received, ws_idx, loop_blocked>>
       ELSE /\ loop_blocked' = TRUE
            /\ UNCHANGED <<received, ws_idx, lock, ws_pc>>
    /\ UNCHANGED <<serial_connected, alarm_state, alarm_mode, acknowledged,
                   last_detection_time, events, map_data, websockets, serial_conn,
                   detection_enabled, saved_threshold, broadcast_queue, now, reader_vars, worker_vars,
                   chan_ok, routed, enqueued, cmds, faults, last_op, rearm, episode, track, pass_start, cmd_texts,
                   bare, sent, wire>>

\* lines 347-352: the history is done; map_full is sent, with state.lock held,
\* if the map cache is not empty
WsMap(w) ==
    /\ ~loop_blocked
    /\ ws_pc[w] = "hist"
    /\ ws_idx[w] >= Len(events)
    /\ IF lock \in {0, w}
       THEN IF map_data = <<>>
            THEN /\ ws_pc' = [ws_pc EXCEPT ![w] = "recv"]
                 /\ lock' = 0
                 /\ UNCHANGED <<received, loop_blocked>>
            ELSE IF chan_ok[w]
            THEN /\ received' = Sent(w, [kind |-> "snapshot",
                                         msg |-> [type |-> "map_full", units |-> map_data],
                                         id |-> 0])
                 /\ ws_pc' = [ws_pc EXCEPT ![w] = "map"]
                 /\ lock' = w
                 /\ UNCHANGED loop_blocked
            ELSE /\ ws_pc' = [ws_pc EXCEPT ![w] = "dead"]
                 /\ lock' = 0
                 /\ UNCHANGED <<received, loop_blocked>>
       ELSE /\ loop_blocked' = TRUE
            /\ UNCHANGED <<received, lock, ws_pc>>
    /\ UNCHANGED <<serial_connected, alarm_state, alarm_mode, acknowledged,
                   last_detection_time, events, map_data, websockets, serial_conn,
                   detection_enabled, saved_threshold, broadcast_queue, now, reader_vars, worker_vars,
                   ws_idx, chan_ok, routed, enqueued, cmds, faults, last_op, rearm, episode, track, pass_start, cmd_texts,
                   bare, sent, wire>>

\* the send of map_full returns: the lock is released, the receive loop is entered
WsMapDone(w) ==
    /\ ~loop_blocked
    /\ ws_pc[w] = "map"
    /\ ws_pc' = [ws_pc EXCEPT ![w] = "recv"]
    /\ lock' = 0
    /\ UNCHANGED <<serial_connected, alarm_state, alarm_mode, acknowledged,
                   last_detection_time, events, map_data, websockets, serial_conn,
                   detection_enabled, saved_threshold, broadcast_queue, now, reader_vars, worker_vars,
                   ws_idx, chan_ok, loop_blocked, cmd_texts, hist_vars>>

\* the observer's channel closes or fails: sends to it raise from now on
WsClose(w) ==
    /\ ws_pc[w] \in {"hist", "map", "recv"}
    /\ chan_ok[w]
    /\ chan_ok' = [chan_ok EXCEPT ![w] = FALSE]
    /\ UNCHANGED <<sensor_vars, broadcast_queue, now, reader_vars, worker_vars,
                   ws_pc, ws_idx, loop_blocked, received, routed, enqueued, cmds, faults,
                   last_op, rearm, episode, track, pass_start, cmd_texts,
                   bare, sent, wire>>

\* lines 359-361: receive_text raises WebSocketDisconnect; the observer is removed
WsDisconnect(w) ==
    /\ ~loop_blocked
    /\ ws_pc[w] = "recv"
    /\ ~chan_ok[w]
    /\ websockets' = IF InSeq(websockets, w) THEN RemoveFirst(websockets, w) ELSE websockets
    /\ ws_pc' = [ws_pc EXCEPT ![w] = "closed"]
    /\ UNCHANGED <<serial_connected, alarm_state, alarm_mode, acknowledged,
                   last_detection_time, events, map_data, lock, serial_conn,
                   detection_enabled, saved_threshold, broadcast_queue, now, reader_vars, worker_vars,
                   ws_idx, chan_ok, loop_blocked, cmd_texts, hist_vars>>

\* handle_ws_command, cmd == "acknowledge": lines 405-407
CmdAcknowledge(w) ==
    /\ ~loop_blocked
    /\ ws_pc[w] = "recv"
    /\ chan_ok[w]
    /\ UNCHANGED <<serial_connected, alarm_mode, last_detection_time, events, map_data,
                   websockets, lock, serial_conn, detection_enabled, saved_threshold, now, reader_vars,
                   worker_vars, ws_pc, ws_idx, chan_ok, received, routed, faults, track, pass_start, cmd_texts,
                   sent, wire>>
    /\ IF LockFree
       THEN /\ Acknowledge
            /\ cmds' = cmds + 1
            /\ bare' = Bare("dispatch", {"alarm_mode"})
            /\ DispatchStatus
       ELSE /\ loop_blocked' = TRUE
            /\ UNCHANGED <<alarm_state, acknowledged, last_op, rearm, episode, cmds,
                           broadcast_queue, enqueued, bare>>

\* handle_ws_command, cmd == "set_alarm_mode": lines 428-432
CmdSetAlarmMode(w, mode) ==
    /\ ~loop_blocked
    /\ ws_pc[w] = "recv"
    /\ chan_ok[w]
    /\ cmds' = cmds + 1
    /\ UNCHANGED <<serial_connected, alarm_state, acknowledged, last_detection_time,
                   events, map_data, websockets, lock, serial_conn, detection_enabled, saved_threshold,
                   now, reader_vars, worker_vars, ws_pc, ws_idx, chan_ok, received,
                   routed, faults, track, pass_start, cmd_texts,
                   sent, wire>>
    /\ IF mode \in AlarmModes
       THEN /\ alarm_mode' = mode
            /\ last_op' = [name |-> "set_alarm_mode", arg |-> mode, prev |-> alarm_state,
                           prev_ack |-> acknowledged, mode |-> alarm_mode]
            /\ rearm' = 0
            /\ episode' = IF mode = "manual" THEN "none"
                          ELSE IF alarm_mode = "auto" THEN episode
                          ELSE IF alarm_state = "alarm" THEN "armed" ELSE "none"
            /\ bare' = Bare("dispatch", {"alarm_mode"})
            /\ DispatchStatus
       ELSE UNCHANGED <<alarm_mode, last_op, rearm, episode, broadcast_queue, enqueued,
                        loop_blocked, bare>>

\* the mode values an observer may send; "siren" stands for any unknown value
ModeInputs == AlarmModes \cup {"siren"}

\* ----------------------------------------------------------- specifications
\* In Spec and SpecTimed the worker keeps up with the producers: an entry is put
\* on the queue once the entries before it have been taken.  (The queue feeds
\* nothing back into the sensor state.)
QueueRoom == broadcast_queue = <<>>

LinkFault == faults < MaxFaults /\ (ReaderOpenFail \/ ReaderFault)

Endpoint(w) == WsConnect(w) \/ WsHistory(w) \/ WsMap(w) \/ WsMapDone(w)

\* Spec: the alarm state machine driven by the lines the reader thread routes,
\* by link faults and by the commands of one observer, while less time passes
\* than the auto-reset needs; map lines are limited to one unit
AlarmEvents == {e \in NextEvents : e.type = "map" => (e.unit_id = 1 /\ e.gain = 1)}

RouteAlarm == Len(routed) < MaxRouted /\ \E e \in AlarmEvents : ReaderRoute(e)

Command(w) ==
    /\ cmds < MaxCmds
    /\ (CmdAcknowledge(w) \/ \E m \in ModeInputs : CmdSetAlarmMode(w, m))

Next ==
    \/ ReaderOpen
    \/ ReaderStatusBuild
    \/ (QueueRoom /\ ReaderStatusPut)
    \/ ReaderBringUp
    \/ (QueueRoom /\ RouteAlarm)
    \/ LinkFault
    \/ Worker
    \/ Endpoint(1)
    \/ (QueueRoom /\ Command(1))

Spec == Init /\ [][Next]_vars

\* SpecTimed: the same with the clock and the auto-reset check; no map line is
\* routed, so an endpoint finds the map cache empty and sends no map_full
Attach(w) == WsConnect(w) \/ WsHistory(w) \/ WsMap(w)

TimedEvents == {e \in NextEvents : e.type \in {"detection", "comm_loss"}}

RouteTimed == Len(routed) < MaxTimedRouted /\ \E e \in TimedEvents : ReaderRoute(e)

CommandTimed(w) ==
    /\ cmds < MaxTimedCmds
    /\ (CmdAcknowledge(w) \/ \E m \in AlarmModes : CmdSetAlarmMode(w, m))

NextTimed ==
    \/ Tick
    \/ ReaderOpen
    \/ ReaderStatusBuild
    \/ (QueueRoom /\ ReaderStatusPut)
    \/ ReaderBringUp
    \/ ReaderCheck
    \/ ReaderReset
    \/ (QueueRoom /\ RouteTimed)
    \/ LinkFault
    \/ Worker
    \/ Attach(1)
    \/ (QueueRoom /\ CommandTimed(1))

SpecTimed == Init /\ [][NextTimed]_vars

\* ------------------------------------------------------------------- claims
\* C1 (re-arm): in manual mode, once set_alarm(alarm); acknowledge();
\* set_alarm(alarm) have run in this order, the raw state is alarm,
\* _acknowledged is false and the effective state is alarm.
C1_ReArm ==
    rearm = 3 => /\ alarm_state = "alarm"
                 /\ ~acknowledged
                 /\ get_effective_state = "alarm"

C1_Witness == rearm = 3 /\ alarm_mode = "manual" /\ last_op.prev = "clear" /\ last_op.prev_ack

\* C2: get_effective_state returns clear exactly when the raw state is alarm in
\* manual mode with the acknowledgement set, or the raw state is clear; in every
\* other case it returns the raw state.
C2_Effective ==
    /\ get_effective_state = "clear"
         <=> \/ (alarm_state = "alarm" /\ alarm_mode = "manual" /\ acknowledged)
             \/ alarm_state = "clear"
    /\ get_effective_state # "clear" => get_effective_state = alarm_state

C2_Witness ==
    /\ alarm_state = "alarm" /\ alarm_mode = "manual" /\ acknowledged
    /\ get_effective_state = "clear"

\* C3: after acknowledge(), _acknowledged is true; in manual mode the raw and the
\* effective state are clear, in auto mode the raw state is what it was.
C3_Acknowledge ==
    last_op.name = "acknowledge" =>
        /\ acknowledged
        /\ last_op.mode = "manual" =>
               (alarm_state = "clear" /\ get_effective_state = "clear")
        /\ last_op.mode = "auto" => alarm_state = last_op.prev

C3_Witness ==
    /\ last_op.name = "acknowledge" /\ last_op.mode = "manual" /\ last_op.prev = "alarm"
    /\ alarm_state = "clear"

\* C4 as claimed: while the mode has stayed auto since the raw state was alarm,
\* the effective state is not clear until more than AUTO_RESET_TIMEOUT seconds
\* have passed since the last detection, whatever else happened (link loss and
\* reconnect, acknowledge).
C4_Original ==
    (episode # "none" /\ now - last_detection_time <= AUTO_RESET_TIMEOUT)
        => get_effective_state # "clear"

\* C4 as amended: the same, as long as the serial link has not been opened again
\* since the raw state was alarm (opening the link calls set_alarm("clear")).
C4_Amended ==
    (episode = "armed" /\ now - last_detection_time <= AUTO_RESET_TIMEOUT)
        => get_effective_state # "clear"

\* the auto-reset has cleared an alarm, in auto mode, after the timeout
C4_Witness ==
    /\ episode = "armed"
    /\ last_op.name = "set_alarm" /\ last_op.arg = "clear" /\ last_op.prev = "alarm"
    /\ now - last_detection_time > AUTO_RESET_TIMEOUT
    /\ get_effective_state = "clear"

\* FairTimed: the reader thread, the clock, the worker and the endpoints of all
\* observers, each scheduled fairly; the lines routed are detections and map
\* responses, early enough for the timeout to pass before the clock's bound
FairEvents == {e \in AlarmEvents : e.type \in {"detection", "map"}}

RouteFair ==
    /\ Len(routed) < MaxFairRouted
    /\ now + AUTO_RESET_TIMEOUT < MaxTime
    /\ \E e \in FairEvents : ReaderRoute(e)

NextFair ==
    \/ Tick
    \/ ReaderInternal
    \/ RouteFair
    \/ Worker
    \/ \E w \in Observers : Endpoint(w)

Fairness ==
    /\ WF_vars(Tick)
    /\ WF_vars(ReaderInternal)
    /\ WF_vars(Worker)
    /\ \A w \in Observers : WF_vars(Endpoint(w))

FairTimed == Init /\ [][NextFair]_vars /\ Fairness

\* FairSolo: FairTimed with the endpoint of a single observer
NextSolo ==
    \/ Tick
    \/ ReaderInternal
    \/ RouteFair
    \/ Worker
    \/ Endpoint(1)

FairSolo == Init /\ [][NextSolo]_vars /\ Fairness

\* C5 (auto-reset liveness): in auto mode an alarm that no further detection
\* renews is eventually cleared, also when the link delivers nothing.
C5_Liveness ==
    (alarm_state = "alarm" /\ alarm_mode = "auto")
        ~> (alarm_state = "clear" /\ get_effective_state = "clear")

\* SpecHist: the reader thread routes a long run of lines, detections but for a
\* few lines of other kinds
OtherCount == Cardinality({i \in 1..Len(routed) : routed[i].type # "detection"})

HistEvents == {e \in AlarmEvents : e.type \in {"detection", "connected", "map"}}

RouteHist ==
    /\ Len(routed) < MaxHistRouted
    /\ \E e \in HistEvents :
          /\ e.type # "detection" => OtherCount < MaxHistOther
          /\ ReaderRoute(e)

NextHist ==
    \/ ReaderOpen
    \/ ReaderStatusBuild
    \/ ReaderStatusPut
    \/ ReaderBringUp
    \/ RouteHist

SpecHist == Init /\ [][NextHist]_vars

RECURSIVE NonMap(_)
\* the events of s that are no map responses, in order
NonMap(s) ==
    IF s = <<>> THEN <<>>
    ELSE IF Head(s).type # "map" THEN <<Head(s)>> \o NonMap(Tail(s))
         ELSE NonMap(Tail(s))

Newest(s, n) == IF Len(s) <= n THEN Reverse(s) ELSE Reverse(SubSeq(s, Len(s) - n + 1, Len(s)))

\* C6: the history holds at most max_events entries, newest first: exactly the
\* most recent routed events that are no map responses.
C6_History ==
    /\ Len(events) <= max_events
    /\ events = Newest(NonMap(routed), max_events)
    /\ \A i \in 1..Len(events) : events[i].type # "map"

\* more events than the history holds have been routed, a map response among them
C6_Witness ==
    /\ Len(NonMap(routed)) > max_events
    /\ Len(events) = max_events
    /\ \E i \in 1..Len(routed) : routed[i].type = "map"

\* SpecMap: the reader thread routes map responses of several units, and detections
MapEvents == {e \in NextEvents : e.type \in {"map", "detection"}}

RouteMap == Len(routed) < MaxMapRouted /\ \E e \in MapEvents : ReaderRoute(e)

NextMap ==
    \/ ReaderOpen
    \/ ReaderStatusBuild
    \/ ReaderStatusPut
    \/ ReaderBringUp
    \/ RouteMap

SpecMap == Init /\ [][NextMap]_vars

\* the index of the last map response of unit u in s, 0 if there is none
LastMapOf(s, u) ==
    LET idx == {i \in 1..Len(s) : s[i].type = "map" /\ s[i].unit_id = u}
    IN  IF idx = {} THEN 0 ELSE CHOOSE i \in idx : \A j \in idx : j <= i

\* C7: map_data is sorted strictly ascending by unit_id (so it holds one entry
\* per unit at most), and holds, for each unit that has reported, the unit's
\* most recent map response.
C7_MapData ==
    /\ \A i, j \in 1..Len(map_data) : i < j => map_data[i].unit_id < map_data[j].unit_id
    /\ \A i \in 1..Len(map_data) :
          /\ LastMapOf(routed, map_data[i].unit_id) # 0
          /\ map_data[i] = routed[LastMapOf(routed, map_data[i].unit_id)]
    /\ \A u \in Units :
          LastMapOf(routed, u) # 0 => \E i \in 1..Len(map_data) : map_data[i].unit_id = u

\* a unit's entry has been replaced by a later response with another gain, and
\* a unit with a smaller id has reported after one with a larger id
C7_Witness ==
    /\ Len(map_data) >= 2
    /\ \E i, j \in 1..Len(routed) :
          /\ i < j /\ routed[i].type = "map" /\ routed[j].type = "map"
          /\ routed[i].unit_id = routed[j].unit_id /\ routed[i].gain # routed[j].gain
    /\ \E i, j \in 1..Len(routed) :
          /\ i < j /\ routed[i].type = "map" /\ routed[j].type = "map"
          /\ routed[i].unit_id > routed[j].unit_id

\* SpecOrder and SpecPipe: the broadcast pipeline.  The reader thread opens the
\* link and routes a line, the worker delivers, observers connect, their channels
\* close or fail, and their endpoints deregister them.  Queue entries are numbered
\* and what each observer is sent is recorded.
InitPipe == InitWith(TRUE)

Closed == {w \in Observers : ~chan_ok[w]}

\* SpecOrder: a single line is routed, to the first NumOrderObservers observers
RouteOrder == routed = <<>> /\ \E e \in FairEvents : ReaderRoute(e)

OrderObservers == 1..NumOrderObservers

NextOrder ==
    \/ ReaderOpen
    \/ ReaderStatusBuild
    \/ ReaderStatusPut
    \/ ReaderBringUp
    \/ RouteOrder
    \/ Worker
    \/ \E w \in OrderObservers : Endpoint(w)
    \/ \E w \in OrderObservers : WsClose(w)
    \/ \E w \in OrderObservers : WsDisconnect(w)

SpecOrder == InitPipe /\ [][NextOrder]_vars

\* SpecPipe: all observers, of which MaxPipeGone may go away
RoutePipe == Len(routed) < MaxPipeRouted /\ \E e \in FairEvents : ReaderRoute(e)

NextPipe ==
    \/ ReaderOpen
    \/ ReaderStatusBuild
    \/ ReaderStatusPut
    \/ ReaderBringUp
    \/ RoutePipe
    \/ Worker
    \/ \E w \in Observers : Endpoint(w)
    \/ \E w \in Observers : Cardinality(Closed) < MaxPipeGone /\ WsClose(w)
    \/ \E w \in Observers : WsDisconnect(w)

SpecPipe == InitPipe /\ [][NextPipe]_vars

RECURSIVE Broadcasts(_)
\* what of s came through the broadcast queue
Broadcasts(s) ==
    IF s = <<>> THEN <<>>
    ELSE IF Head(s).kind # "snapshot" THEN <<Head(s)>> \o Broadcasts(Tail(s))
         ELSE Broadcasts(Tail(s))

\* C8 (broadcast ordering): what an observer is sent from the queue is a
\* subsequence of what was put on the queue, in that order, each entry whole.
C8_Ordering ==
    \A w \in Observers :
        LET b == Broadcasts(received[w])
        IN  /\ \A i, j \in 1..Len(b) : i < j => b[i].id < b[j].id
            /\ \A i \in 1..Len(b) : b[i].id \in 1..Len(enqueued) /\ enqueued[b[i].id] = b[i]

\* an observer has been sent three entries from the queue, the first entry put on
\* it among them
C8_Witness ==
    \E w \in Observers :
        /\ Len(Broadcasts(received[w])) >= 3
        /\ Broadcasts(received[w])[1].id = 1

\* the worker has gone through state.websockets with worker_msg
PassDone == worker_pc = "send" /\ worker_idx > Len(websockets)

\* observer w was registered when worker_msg was taken from the queue, is still
\* registered, and its channel works
Listening(w) == InSeq(pass_start, w) /\ InSeq(websockets, w) /\ chan_ok[w]

\* observer w has been sent message m, in its snapshot or from the queue
Got(w, m) == \E i \in 1..Len(received[w]) : received[w][i].msg = m

\* C9 (no loss, no duplication): no observer is sent the same event twice, be it
\* in its snapshot on connect or from the queue; and when the worker is through
\* with an event, every observer that was registered throughout the pass and
\* whose channel works has been sent it.
C9_ExactlyOnce ==
    \A w \in Observers :
        /\ \A i, j \in 1..Len(received[w]) :
              (i < j /\ received[w][i].msg.type \in EventTypes)
                  => received[w][i].msg # received[w][j].msg
        /\ (PassDone /\ worker_msg.kind = "event" /\ Listening(w))
              => Got(w, worker_msg.msg)

\* C10 (delivery-fault isolation): when a send has failed in the worker's pass
\* over the observers, every other observer registered throughout the pass whose
\* channel works has been sent the message by the end of the pass; only
\* observers whose send failed are removed; the message is not put on the queue
\* again.
C10_Isolation ==
    /\ (PassDone /\ worker_disc # <<>>)
          => \A w \in Observers : Listening(w) => Got(w, worker_msg.msg)
    /\ \A i \in 1..Len(worker_disc) : ~chan_ok[worker_disc[i]]
    /\ worker_pc = "send"
          => \A i \in 1..Len(broadcast_queue) : broadcast_queue[i].id # worker_msg.id

\* ------------------------------------------------- the two contexts and the lock
\* the reader thread is at a call that takes state.lock: get_effective_state in
\* broadcast_status, set_alarm in check_auto_reset
ReaderNeedsLock == reader_pc \in {"status", "reset"}

\* C11 (ingestion is never stalled by observers): the reader thread is never at
\* a call that takes state.lock while an endpoint holds the lock across a send
\* that has not returned.
C11_NeverStalled == ~(ReaderNeedsLock /\ lock # 0)

\* C19 (the dispatch context never deadlocks on state.lock): the event loop's
\* thread is never blocked in acquire() on a lock that a suspended coroutine of
\* the same loop holds.
C19_NoDeadlock == ~loop_blocked

\* ------------------------------------------------------------ fault recovery
\* except Exception, lines 230-232: any fault that is no SerialException is
\* printed; the thread sleeps and goes round the outer loop
ReaderError ==
    /\ reader_pc \in {"bringup", "loop"}
    /\ reader_pc' = "open"
    /\ reader_wake' = now + RETRY_DELAY
    /\ faults' = faults + 1
    /\ UNCHANGED <<sensor_vars, broadcast_queue, now, reader_ret, reader_status,
                   worker_vars, ws_vars, received, routed, enqueued, cmds, last_op,
                   rearm, episode, track, pass_start, bare, sent, wire>>

RECURSIVE LastStatusOf(_)
\* the status record of the last status entry of q, NoStatus if q has none
LastStatusOf(q) ==
    IF q = <<>> THEN NoStatus
    ELSE IF q[Len(q)].kind = "status" THEN q[Len(q)].msg
         ELSE LastStatusOf(SubSeq(q, 1, Len(q) - 1))

\* the last status put on the queue
LastStatus == LastStatusOf(enqueued)

\* SpecFault: the reader thread with both kinds of fault and the clock, so that
\* the backoff ends and the link is opened again; one line is routed
NextFault ==
    \/ Tick
    \/ ReaderOpen
    \/ ReaderStatusBuild
    \/ ReaderStatusPut
    \/ ReaderBringUp
    \/ RouteOrder
    \/ (faults < MaxRecFaults /\ ReaderOpenFail)
    \/ (faults < MaxRecFaults /\ ReaderFault)
    \/ (faults < MaxRecFaults /\ ReaderError)

SpecFault == InitPipe /\ [][NextFault]_vars

\* the reader thread is in the backoff after a fault, or about to open the link again
Backoff == reader_pc = "open" /\ faults > 0

\* C12 (fault recovery): when the reader thread is in the backoff after a fault
\* of either kind, serial_connected is false, the raw alarm state is
\* disconnected, the connection handle is cleared, and the last status put on
\* the queue says so.  (The thread is then at the head of the outer loop again.)
C12_Recovery ==
    Backoff => /\ ~serial_connected
               /\ alarm_state = "disconnected"
               /\ ~serial_conn
               /\ LastStatus = StatusRecord

\* ------------------------------------------- commands that write to the device
\* the values an observer may send with set_threshold
ThresholdInputs == {DefaultThreshold - 200}

\* the commands of handle_ws_command that drive the device, with their values
SerialCmds ==
    {[name |-> "set_threshold", value |-> v] : v \in ThresholdInputs}
    \cup {[name |-> "set_gain", value |-> g] : g \in Gains}
    \cup {[name |-> n, value |-> 0] : n \in {"map", "toggle_detection"}}

\* lines 371-382, 386-396, 415-425: root, configuration context, the setting,
\* root, cmd folder, detection streaming; lines 399-403: root, cmd folder, map
CmdTexts(name, v) ==
    IF name = "map"
    THEN <<Text("/", 0), Text("cmd", 0), Text("map", 0)>>
    ELSE <<Text("/", 0), Text("mpedT", 0),
           Text(IF name = "set_gain" THEN "gain" ELSE "threshold", v),
           Text("/", 0), Text("cmd", 0), Text("re 3 4", 0)>>

\* handle_ws_command, cmd in set_threshold, set_gain, map, toggle_detection: the
\* assignments before the first send_serial, and that send; the coroutine then
\* sleeps
CmdSerialStart(w, c) ==
    /\ ~loop_blocked
    /\ ws_pc[w] = "recv"
    /\ chan_ok[w]
    /\ cmds' = cmds + 1
    /\ saved_threshold' = IF c.name = "set_threshold" THEN c.value ELSE saved_threshold
    /\ detection_enabled' = IF c.name = "set_threshold" THEN TRUE
                            ELSE IF c.name = "toggle_detection" THEN ~detection_enabled
                            ELSE detection_enabled
    /\ LET v == IF c.name = "toggle_detection"
                THEN (IF ~detection_enabled THEN saved_threshold ELSE 0)
                ELSE c.value
           ts == CmdTexts(c.name, v)
       IN  /\ Send(<<Head(ts)>>)
           /\ cmd_texts' = [cmd_texts EXCEPT ![w] = Tail(ts)]
    /\ ws_pc' = [ws_pc EXCEPT ![w] = IF c.name = "toggle_detection" THEN "toggle" ELSE "cmd"]
    /\ UNCHANGED <<serial_connected, alarm_state, alarm_mode, acknowledged,
                   last_detection_time, events, map_data, websockets, lock, serial_conn,
                   broadcast_queue, now, reader_vars, worker_vars, ws_idx, chan_ok,
                   loop_blocked, received, routed, enqueued, faults, last_op, rearm,
                   episode, track, pass_start, bare>>

\* the sleep is over: the next send_serial
CmdSerialStep(w) ==
    /\ ~loop_blocked
    /\ ws_pc[w] \in {"cmd", "toggle"}
    /\ Len(cmd_texts[w]) > 1
    /\ Send(<<Head(cmd_texts[w])>>)
    /\ cmd_texts' = [cmd_texts EXCEPT ![w] = Tail(@)]
    /\ UNCHANGED <<sensor_vars, broadcast_queue, now, reader_vars, worker_vars, ws_pc,
                   ws_idx, chan_ok, loop_blocked, received, routed, enqueued, cmds,
                   faults, last_op, rearm, episode, track, pass_start, bare>>

\* the last send_serial of set_threshold, set_gain and map (lines 382, 396,
\* 403): handle_ws_command returns, the endpoint receives again
CmdSerialEnd(w) ==
    /\ ~loop_blocked
    /\ ws_pc[w] = "cmd"
    /\ Len(cmd_texts[w]) = 1
    /\ Send(<<Head(cmd_texts[w])>>)
    /\ cmd_texts' = [cmd_texts EXCEPT ![w] = <<>>]
    /\ ws_pc' = [ws_pc EXCEPT ![w] = "recv"]
    /\ UNCHANGED <<sensor_vars, broadcast_queue, now, reader_vars, worker_vars,
                   ws_idx, chan_ok, loop_blocked, received, routed, enqueued, cmds,
                   faults, last_op, rearm, episode, track, pass_start, bare>>

\* the last send_serial of toggle_detection, and broadcast_status: lines 425-426
CmdToggleEnd(w) ==
    /\ ~loop_blocked
    /\ ws_pc[w] = "toggle"
    /\ Len(cmd_texts[w]) = 1
    /\ Send(<<Head(cmd_texts[w])>>)
    /\ cmd_texts' = [cmd_texts EXCEPT ![w] = <<>>]
    /\ UNCHANGED <<sensor_vars, now, reader_vars, worker_vars, ws_idx, chan_ok,
                   received, routed, cmds, faults, last_op, rearm, episode, track,
                   pass_start>>
    /\ IF LockFree
       THEN /\ ws_pc' = [ws_pc EXCEPT ![w] = "recv"]
            /\ bare' = Bare("dispatch", {"alarm_mode"})
            /\ DispatchStatus
       ELSE /\ loop_blocked' = TRUE
            /\ UNCHANGED <<ws_pc, broadcast_queue, enqueued, bare>>

\* a running command goes on
CmdSerialRun(w) == CmdSerialStep(w) \/ CmdSerialEnd(w) \/ CmdToggleEnd(w)

\* FairPub: one observer sends commands once the reader thread has opened the
\* link and is in its read loop; no line arrives.  The reader thread, the worker,
\* the endpoint and a running command are each scheduled fairly.
Join(w) == WsConnect(w) \/ WsMap(w)

ReaderUp == ReaderOpen \/ ReaderStatusBuild \/ ReaderStatusPut \/ ReaderBringUp

PubCmds == {c \in SerialCmds : c.name \in {"set_threshold", "toggle_detection"}}

CommandPub(w) ==
    /\ cmds < MaxPubCmds
    /\ reader_pc = "loop"
    /\ \/ CmdAcknowledge(w)
       \/ \E m \in AlarmModes : CmdSetAlarmMode(w, m)
       \/ \E c \in PubCmds : CmdSerialStart(w, c)

NextPub ==
    \/ ReaderUp
    \/ Worker
    \/ Join(1)
    \/ CommandPub(1)
    \/ CmdSerialRun(1)

FairPub ==
    /\ InitPipe /\ [][NextPub]_vars
    /\ WF_vars(ReaderUp) /\ WF_vars(Worker) /\ WF_vars(Join(1)) /\ WF_vars(CmdSerialRun(1))

\* C13 (status publication): whenever the status record differs from the last
\* status put on the queue (a reported field has changed since), a status that
\* carries the current values is put on the queue eventually.
C13_Published == (LastStatus # StatusRecord) ~> (LastStatus = StatusRecord)

\* SpecWire: one observer sends a command that writes to the device, while the
\* link is opened, lost (with either kind of fault) and, once the backoff has
\* passed, opened again
CommandWire(w) == cmds = 0 /\ \E c \in SerialCmds : CmdSerialStart(w, c)

FaultWire == faults < MaxWireFaults /\ (ReaderOpenFail \/ ReaderFault \/ ReaderError)

\* the clock moves while the reader thread sleeps in the backoff
BackoffTick == now < reader_wake /\ Tick

NextWire ==
    \/ BackoffTick
    \/ ReaderUp
    \/ FaultWire
    \/ Join(1)
    \/ CommandWire(1)
    \/ CmdSerialRun(1)

SpecWire == InitPipe /\ [][NextWire]_vars

\* the call was made while state.serial_conn was set
IsOpen(c) == c.open

\* C14 (commands sent while no connection is open are dropped, not queued):
\* what has been written to the device is exactly the calls of send_serial made
\* while the connection handle was set, each once, in the order of the calls; a
\* call made while it was not set is never written, also not after a reconnect.
C14_Dropped ==
    /\ wire = SelectSeq(sent, IsOpen)
    /\ \A i \in 1..Len(wire) : wire[i].open

\* a text was dropped after the link had been lost, and texts have been written
\* before that and after the link was opened again
C14_Witness ==
    /\ faults > 0
    /\ \E i, j, k \in 1..Len(sent) :
          /\ i < j /\ j < k
          /\ sent[i].open /\ ~sent[j].open /\ sent[k].open
    /\ Len(wire) < Len(sent)

\* ------------------------------------------------ acknowledgement and the mode
\* C15 as claimed: right after any operation that has changed the raw alarm
\* state, set_alarm or acknowledge, _acknowledged is false.
C15_Original ==
    (last_op.name \in {"set_alarm", "acknowledge"} /\ alarm_state # last_op.prev)
        => ~acknowledged

\* C15 as amended: right after a set_alarm that has changed the raw alarm state,
\* _acknowledged is false.  (acknowledge in manual mode changes the raw state
\* to clear and leaves _acknowledged true.)
C15_Amended ==
    (last_op.name = "set_alarm" /\ last_op.arg # last_op.prev) => ~acknowledged

\* a set_alarm has changed the raw state while _acknowledged was true
C15_Witness ==
    /\ last_op.name = "set_alarm" /\ last_op.arg # last_op.prev
    /\ last_op.prev_ack
    /\ ~acknowledged

\* C16 (the auto-reset is active in auto mode only): no set_alarm("clear") takes
\* the raw state from alarm to clear while alarm_mode is manual.  (The link is
\* opened, the other caller of set_alarm("clear"), in state disconnected or
\* clear only; last_op.mode is the mode when set_alarm ran.)
C16_AutoOnly ==
    ~(/\ last_op.name = "set_alarm" /\ last_op.arg = "clear"
      /\ last_op.prev = "alarm"
      /\ last_op.mode = "manual")

\* SpecLock: the reader thread opens the link, routes a line and polls the
\* auto-reset, while one observer connects and sends acknowledge and
\* set_alarm_mode; every access to a field outside state.lock is recorded
CommandLock(w) ==
    /\ cmds < MaxPubCmds
    /\ (CmdAcknowledge(w) \/ \E m \in AlarmModes : CmdSetAlarmMode(w, m))

NextLock ==
    \/ ReaderUp
    \/ RouteOrder
    \/ ReaderCheck
    \/ Worker
    \/ Endpoint(1)
    \/ CommandLock(1)

SpecLock == InitPipe /\ [][NextLock]_vars

\* the fields of SensorState that both the reader thread and the dispatch
\* context read or write (last_detection_time is the reader thread's alone)
SharedFields == {"alarm_state", "alarm_mode", "acknowledged", "events", "map_data"}

\* C17 (lock discipline): no context has read or written, outside state.lock, a
\* field that both contexts access.
C17_LockDiscipline == \A a \in bare : a.field \notin SharedFields

\* C18: a status message built while serial_connected was false reports the
\* alarm state disconnected: every status entry on the queue that says the link
\* is down says disconnected.
C18_DownIsDisconnected ==
    \A i \in 1..Len(broadcast_queue) :
        (broadcast_queue[i].kind = "status" /\ ~broadcast_queue[i].msg.serial_connected)
            => broadcast_queue[i].msg.alarm_state = "disconnected"

\* both contexts are at rest: the reader thread polls the link with no reset
\* due, no endpoint is in its snapshot or in a command, the loop is not blocked
Quiescent ==
    /\ reader_pc = "loop"
    /\ ~(alarm_mode = "auto" /\ alarm_state = "alarm"
         /\ AutoResetDue(now, last_detection_time))
    /\ \A w \in Observers : ws_pc[w] \in {"new", "recv", "closed", "dead"}
    /\ lock = 0
    /\ ~loop_blocked

\* C20 (status convergence): when both contexts are at rest, the last status
\* put on the queue carries the current values of the reported fields.
C20_Converged == Quiescent => LastStatus = StatusRecord

====
